---- MODULE Spec2Model ----
(***************************************************************************)
(* A model of the Validator class of js-validator (src/src/index.ts).      *)
(*                                                                         *)
(* A Validator instance owns five fields: rules, messages, options, errors *)
(* and passed.  The operations are validate, reset, updateRules,           *)
(* updateMessages and updateOptions.                                       *)
(*                                                                         *)
(* JavaScript strings are modelled as sequences of tokens: the value       *)
(* strings that the checks inspect (length, email shape, regex) are        *)
(* sequences of single characters; a template literal is the               *)
(* concatenation of its literal parts and of its interpolated values.      *)
(* JavaScript numbers are modelled in halves (the number 1.5 is the        *)
(* integer 3), which keeps whole and fractional values apart.              *)
(***************************************************************************)
EXTENDS Integers, Sequences, FiniteSets, TLC

VARIABLES rules, messages, options, errors, passed, last, calls

vars == <<rules, messages, options, errors, passed, last, calls>>

(***************************************************************************)
(* Bounds of the value universe.                                           *)
(***************************************************************************)
\* the strings "", "a", "aa", ... up to this length are input values
MaxStrLen == 2
\* the numbers 0.5, 1, 1.5, ... up to this many halves are input values
MaxHalves == 3

(***************************************************************************)
(* JavaScript values.  t is the kind, s the characters of a string, n the  *)
(* number in halves (or 0/1 for a boolean, or 0/1 for an invalid/valid     *)
(* Date object).  The number NaN is the number whose n is -1.  ref is the  *)
(* identity of an object (0 for a primitive): two Date objects are the     *)
(* same value only if they are the same object.                            *)
(***************************************************************************)
Undefined == [t |-> "undefined", s |-> <<>>, n |-> 0, ref |-> 0]

Null == [t |-> "null", s |-> <<>>, n |-> 0, ref |-> 0]

Str(chars) == [t |-> "string", s |-> chars, n |-> 0, ref |-> 0]

Num(halves) == [t |-> "number", s |-> <<>>, n |-> halves, ref |-> 0]

NaN == [t |-> "number", s |-> <<>>, n |-> -1, ref |-> 0]

Bool(b) == [t |-> "boolean", s |-> <<>>, n |-> IF b THEN 1 ELSE 0, ref |-> 0]

DateObj(valid, ref) ==
  [t |-> "date", s |-> <<>>, n |-> IF valid THEN 1 ELSE 0, ref |-> ref]

\* x === y: the same primitive or the same object; NaN equals nothing
StrictEquals(x, y) == x = y /\ ~(x.t = "number" /\ x.n < 0)

\* the typeof operator
TypeOf(v) ==
  CASE v.t = "undefined" -> "undefined"
    [] v.t = "string" -> "string"
    [] v.t = "number" -> "number"
    [] v.t = "boolean" -> "boolean"
    [] OTHER -> "object"

\* the string of n copies of the character c
RECURSIVE Rep(_, _)
Rep(c, n) == IF n = 0 THEN <<>> ELSE <<c>> \o Rep(c, n - 1)

Range(seq) == {seq[i] : i \in DOMAIN seq}

\* the decimal digits of a natural number
RECURSIVE Digits(_)
Digits(k) ==
  LET d == <<"0", "1", "2", "3", "4", "5", "6", "7", "8", "9">>[(k % 10) + 1]
  IN IF k < 10 THEN <<d>> ELSE Digits(k \div 10) \o <<d>>

\* the string of a number given in halves, as String(x) and `${x}` print it
NumToString(h) ==
  IF h < 0 THEN <<"N", "a", "N">>
  ELSE IF h % 2 = 0 THEN Digits(h \div 2)
  ELSE Digits(h \div 2) \o <<".", "5">>

\* String(value): the coercion applied by String(email) and by RegExp.test
ToJSString(v) ==
  CASE v.t = "string" -> v.s
    [] v.t = "number" -> NumToString(v.n)
    [] v.t = "boolean" -> IF v.n = 1 THEN <<"t", "r", "u", "e">>
                          ELSE <<"f", "a", "l", "s", "e">>
    [] v.t = "null" -> <<"n", "u", "l", "l">>
    [] v.t = "undefined" -> <<"u", "n", "d", "e", "f", "i", "n", "e", "d">>
    [] v.t = "date" ->
         IF v.n = 1
         THEN <<"T", "h", "u", " ", "J", "a", "n", " ", "0", "1", " ",
                "1", "9", "7", "0">>
         ELSE <<"I", "n", "v", "a", "l", "i", "d", " ", "D", "a", "t", "e">>

LowerLetters ==
  {"a", "b", "c", "d", "e", "f", "i", "l", "n", "o", "r", "s", "t", "u", "v"}

\* String.prototype.toLowerCase on one character of the alphabet in use
LowerChar(c) ==
  CASE c = "T" -> "t"
    [] c = "J" -> "j"
    [] c = "I" -> "i"
    [] c = "D" -> "d"
    [] c = "A" -> "a"
    [] OTHER -> c

ToLowerCase(chars) == [i \in DOMAIN chars |-> LowerChar(chars[i])]

\* the characters the class [^\s@] excludes
IsSpaceOrAt(c) == c = " " \/ c = "@"

\* /^[^\s@]+@[^\s@]+\.[^\s@]{2,}$/ .test(chars)
EmailRegexTest(chars) ==
  \E i \in DOMAIN chars :
    /\ chars[i] = "@"
    /\ i > 1
    /\ \A k \in DOMAIN chars : k # i => ~IsSpaceOrAt(chars[k])
    /\ \E j \in DOMAIN chars :
         /\ j > i + 1
         /\ chars[j] = "."
         /\ Len(chars) - j >= 2

isEmail(email) == EmailRegexTest(ToLowerCase(ToJSString(email)))

\* RegExp.test for the patterns in use; "lower" is /^[a-z]+$/ and
\* "digits" is /^[0-9]+$/
RegexTest(regex, chars) ==
  CASE regex = "lower" ->
         Len(chars) > 0 /\ \A i \in DOMAIN chars :
           chars[i] \in LowerLetters \cup {"j"}
    [] regex = "digits" ->
         Len(chars) > 0 /\ \A i \in DOMAIN chars :
           chars[i] \in {"0", "1", "2", "3", "4", "5", "6", "7", "8", "9"}
    [] OTHER -> FALSE

isValidRegex(value, regex) == RegexTest(regex, ToJSString(value))

\* Number.isInteger(value)
isInteger(value) == value.t = "number" /\ value.n >= 0 /\ value.n % 2 = 0

\* mutant of isFloat: every number is a float
isFloatOfAnyNumber(value) == TypeOf(value) = "number"

isFloat(value) == TypeOf(value) = "number" /\ ~isInteger(value)

\* Number.isNaN(value) does not coerce: it is true of the number NaN alone
NumberIsNaN(value) == value.t = "number" /\ value.n < 0

\* value instanceof Date && !Number.isNaN(value)
isDate(value) == value.t = "date" /\ ~NumberIsNaN(value)

(***************************************************************************)
(* Objects used as maps: a function from the keys present to their values. *)
(***************************************************************************)
EmptyMap == <<>>

Put(m, k, v) == [q \in (DOMAIN m) \cup {k} |-> IF q = k THEN v ELSE m[q]]

\* mutant of Spread: the new object replaces the old one
SpreadReplacing(a, b) == b

\* { ...a, ...b }
Spread(a, b) ==
  [q \in (DOMAIN a) \cup (DOMAIN b) |-> IF q \in DOMAIN b THEN b[q] ELSE a[q]]

(***************************************************************************)
(* Rules.  An unset min, max or match is the empty sequence; an unset type,*)
(* validate, regex, custom or skip is "none".  custom and skip name a      *)
(* predicate.  The rules object keeps its keys in insertion order, so it   *)
(* is a sequence of entries [key, rule].                                   *)
(***************************************************************************)
NoRule ==
  [type |-> "none", required |-> FALSE, min |-> <<>>, max |-> <<>>,
   validate |-> "none", match |-> <<>>, regex |-> "none",
   custom |-> "none", skip |-> "none"]

\* Object.keys(this.rules)
RuleKeys(rs) == [i \in DOMAIN rs |-> rs[i].key]

HasRule(rs, key) == \E i \in DOMAIN rs : rs[i].key = key

\* this.rules[key]
RuleOf(rs, key) == rs[CHOOSE i \in DOMAIN rs : rs[i].key = key].rule

\* { ...rs, ...new } on insertion-ordered objects: a key of rs keeps its
\* place and takes the new value, the other keys of new follow in order
SpreadRules(rs, new) ==
  LET kept == [i \in DOMAIN rs |->
                 IF HasRule(new, rs[i].key)
                 THEN [key |-> rs[i].key, rule |-> RuleOf(new, rs[i].key)]
                 ELSE rs[i]]
      added == SelectSeq(new, LAMBDA e : ~HasRule(rs, e.key))
  IN kept \o added

\* the user-supplied skip predicates: rule.skip(input)
CallSkip(skip, input) ==
  CASE skip = "always" -> TRUE
    [] skip = "never" -> FALSE
    [] skip = "ifNoB" -> "b" \notin DOMAIN input.fields
    [] OTHER -> FALSE

\* the user-supplied custom predicates: rule.custom(value).  Two more
\* predicates do not return: "throws" throws when it is called and
\* "rejects" returns a promise that rejects.  The promise that "never"
\* returns does not settle.
CallCustom(custom, value) ==
  CASE custom = "alwaysTrue" -> TRUE
    [] custom = "alwaysFalse" -> FALSE
    [] custom = "isString" -> TypeOf(value) = "string"
    [] OTHER -> FALSE

(***************************************************************************)
(* Inputs of validate: a keyed record (kind "object", fields the map of    *)
(* its own keys), or null, undefined, an array or a primitive.             *)
(***************************************************************************)
ObjectInput(fields) == [kind |-> "object", fields |-> fields]

OtherInput(kind) == [kind |-> kind, fields |-> EmptyMap]

\* typeof input
InputTypeOf(input) ==
  CASE input.kind \in {"object", "array", "null"} -> "object"
    [] OTHER -> input.kind

\* input[key] on a keyed record
Get(input, key) ==
  IF key \in DOMAIN input.fields THEN input.fields[key] ELSE Undefined

(***************************************************************************)
(* The generated default messages (the template literals of validate).     *)
(***************************************************************************)
DefaultRequired(key) ==
  <<"\"", key, "\" is a required field and cannot be empty.">>

DefaultType(rule, value) ==
  <<"Expected a ", rule.type, ", but received ", TypeOf(value)>>

DefaultMin(key, rule) ==
  <<"\"", key, "\" should be at least ">> \o NumToString(rule.min[1])
    \o <<" characters long (or greater if a number).">>

DefaultMax(key, rule) ==
  <<"\"", key, "\" should not exceed ">> \o NumToString(rule.max[1])
    \o <<" characters (or be less if a number).">>

DefaultValidate(key) ==
  <<"\"", key, "\" is not a valid email address. Please enter a valid email.">>

DefaultMatch(key, rule) ==
  <<"\"", key, "\" must match with the \"", rule.match[1], "\" field.">>

DefaultRegex(key) == <<"\"", key, "\" does not match the required format.">>

DefaultCustom(key) ==
  <<"Custom validation for \"", key,
    "\" failed. Ensure it meets the specific requirements.">>

StrictMessage(key) ==
  <<"\"", key, "\" is not a recognized field and cannot be processed.">>

InputError == <<"Error", "Input must be an object.">>

\* the exception of a custom predicate that throws or rejects
CustomError == <<"Error", "thrown by the custom predicate">>

\* reading a property of undefined or of null
PropertyTypeError == <<"TypeError", "Cannot read properties of undefined or null">>

(***************************************************************************)
(* One validate call in progress: c.errors is this.errors, c.isValid the   *)
(* local flag, c.thrown the exception that ended the call (or <<>>) and    *)
(* c.awaiting whether the field being evaluated has reached its custom     *)
(* predicate.  c.events lists, in the order of execution, the writes to    *)
(* this.errors by the field checks ("record", with the kind of the check), *)
(* the calls of custom predicates ("invoke", with the value passed) and    *)
(* their settling ("settle").                                              *)
(***************************************************************************)
Event(ev, key, kind, value) ==
  [ev |-> ev, key |-> key, kind |-> kind, value |-> value]

Throw(c, exception) == [c EXCEPT !.thrown = exception]

\* this.errors[key] = this.messages[key].<kind> ?? <default>; isValid = false
\* (reading this.messages[key].<kind> throws when messages has no such key)
RecordError(c, key, kind, default, msgs) ==
  IF key \notin DOMAIN msgs
  THEN Throw(c, PropertyTypeError)
  ELSE [c EXCEPT
          !.events = Append(@, Event("record", key, kind, Undefined)),
          !.errors = Put(@, key, IF kind \in DOMAIN msgs[key]
                                 THEN msgs[key][kind] ELSE default),
          !.isValid = FALSE]

\* the six type-specific validations
TypeMismatch(rule, value) ==
  \/ rule.type = "string" /\ TypeOf(value) # "string"
  \/ rule.type = "number" /\ TypeOf(value) # "number"
  \/ rule.type = "boolean" /\ TypeOf(value) # "boolean"
  \/ rule.type = "integer" /\ ~isInteger(value)
  \/ rule.type = "float" /\ ~isFloat(value)
  \/ rule.type = "date" /\ ~isDate(value)

CheckType(c, key, rule, value, msgs) ==
  IF c.thrown = <<>> /\ TypeMismatch(rule, value)
  THEN RecordError(c, key, "type", DefaultType(rule, value), msgs)
  ELSE c

\* value.length < bound or value < bound; a comparison with NaN is false
\* mutant of BelowMin: a value equal to min is below it (<= for <)
BelowOrAtMin(rule, value) ==
  /\ rule.min # <<>>
  /\ \/ TypeOf(value) = "string" /\ 2 * Len(value.s) <= rule.min[1]
     \/ TypeOf(value) = "number" /\ ~NumberIsNaN(value) /\ value.n <= rule.min[1]

BelowMin(rule, value) ==
  /\ rule.min # <<>>
  /\ \/ TypeOf(value) = "string" /\ 2 * Len(value.s) < rule.min[1]
     \/ TypeOf(value) = "number" /\ ~NumberIsNaN(value) /\ value.n < rule.min[1]

AboveMax(rule, value) ==
  /\ rule.max # <<>>
  /\ \/ TypeOf(value) = "string" /\ 2 * Len(value.s) > rule.max[1]
     \/ TypeOf(value) = "number" /\ ~NumberIsNaN(value) /\ value.n > rule.max[1]

CheckMin(c, key, rule, value, msgs) ==
  IF c.thrown = <<>> /\ BelowMin(rule, value)
  THEN RecordError(c, key, "min", DefaultMin(key, rule), msgs)
  ELSE c

CheckMax(c, key, rule, value, msgs) ==
  IF c.thrown = <<>> /\ AboveMax(rule, value)
  THEN RecordError(c, key, "max", DefaultMax(key, rule), msgs)
  ELSE c

CheckEmail(c, key, rule, value, msgs) ==
  IF c.thrown = <<>> /\ rule.validate = "email" /\ ~isEmail(value)
  THEN RecordError(c, key, "validate", DefaultValidate(key), msgs)
  ELSE c

\* mutant of CheckMatch: the comparison coerces a number and a string (!=)
CheckMatchLoosely(c, key, rule, value, input, msgs) ==
  LET other == Get(input, rule.match[1])
      coerced == /\ {TypeOf(value), TypeOf(other)} = {"number", "string"}
                 /\ ToJSString(value) = ToJSString(other)
  IN IF c.thrown = <<>> /\ rule.match # <<>>
        /\ ~(StrictEquals(value, other) \/ coerced)
     THEN RecordError(c, key, "match", DefaultMatch(key, rule), msgs)
     ELSE c

CheckMatch(c, key, rule, value, input, msgs) ==
  IF c.thrown = <<>> /\ rule.match # <<>>
     /\ ~StrictEquals(value, Get(input, rule.match[1]))
  THEN RecordError(c, key, "match", DefaultMatch(key, rule), msgs)
  ELSE c

CheckRegex(c, key, rule, value, msgs) ==
  IF c.thrown = <<>> /\ rule.regex # "none" /\ ~isValidRegex(value, rule.regex)
  THEN RecordError(c, key, "regex", DefaultRegex(key), msgs)
  ELSE c

\* rule.custom(value) is called, if the rule has a custom predicate: an
\* exception it throws ends the call, otherwise its result is awaited
InvokeCustom(c, key, rule, value) ==
  IF c.thrown # <<>> \/ rule.custom = "none"
  THEN c
  ELSE LET c1 == [c EXCEPT !.events = Append(@, Event("invoke", key, "custom",
                                                      value))]
       IN IF rule.custom = "throws"
          THEN Throw(c1, CustomError)
          ELSE [c1 EXCEPT !.awaiting = TRUE]

\* mutant of PresentChecks: a type mismatch ends the checks of the field
PresentChecksStoppingAtTypeError(c, key, rule, value, input, msgs) ==
  LET c1 == CheckType(c, key, rule, value, msgs)
      c2 == CheckMin(c1, key, rule, value, msgs)
      c3 == CheckMax(c2, key, rule, value, msgs)
      c4 == CheckEmail(c3, key, rule, value, msgs)
      c5 == CheckMatch(c4, key, rule, value, input, msgs)
      c6 == CheckRegex(c5, key, rule, value, msgs)
  IN IF TypeMismatch(rule, value)
     THEN c1
     ELSE InvokeCustom(c6, key, rule, value)

\* mutant of PresentChecks: the max check runs before the min check
PresentChecksMaxBeforeMin(c, key, rule, value, input, msgs) ==
  LET c1 == CheckType(c, key, rule, value, msgs)
      c2 == CheckMax(c1, key, rule, value, msgs)
      c3 == CheckMin(c2, key, rule, value, msgs)
      c4 == CheckEmail(c3, key, rule, value, msgs)
      c5 == CheckMatch(c4, key, rule, value, input, msgs)
      c6 == CheckRegex(c5, key, rule, value, msgs)
  IN InvokeCustom(c6, key, rule, value)

\* the checks of a present value, in the order of the code, up to the call
\* of the custom predicate
PresentChecks(c, key, rule, value, input, msgs) ==
  LET c1 == CheckType(c, key, rule, value, msgs)
      c2 == CheckMin(c1, key, rule, value, msgs)
      c3 == CheckMax(c2, key, rule, value, msgs)
      c4 == CheckEmail(c3, key, rule, value, msgs)
      c5 == CheckMatch(c4, key, rule, value, input, msgs)
      c6 == CheckRegex(c5, key, rule, value, msgs)
  IN InvokeCustom(c6, key, rule, value)

\* mutant of FieldChecks: the required check runs before the skip predicate
FieldChecksRequiredBeforeSkip(c, key, rule, input, msgs) ==
  IF input.kind # "object"
  THEN Throw(c, PropertyTypeError)
  ELSE LET value == Get(input, key)
       IN IF rule.required
             /\ (StrictEquals(value, Str(<<>>))
                 \/ StrictEquals(value, Undefined))
          THEN RecordError(c, key, "required", DefaultRequired(key), msgs)
          ELSE IF rule.skip # "none" /\ CallSkip(rule.skip, input)
          THEN c
          ELSE IF StrictEquals(value, Undefined)
          THEN c
          ELSE PresentChecks(c, key, rule, value, input, msgs)

\* mutant of FieldChecks: an absent optional value is checked like a
\* present one
FieldChecksOfAbsentValue(c, key, rule, input, msgs) ==
  IF input.kind # "object"
  THEN Throw(c, PropertyTypeError)
  ELSE LET value == Get(input, key)
       IN IF rule.skip # "none" /\ CallSkip(rule.skip, input)
          THEN c
          ELSE IF rule.required
                  /\ (StrictEquals(value, Str(<<>>))
                      \/ StrictEquals(value, Undefined))
          THEN RecordError(c, key, "required", DefaultRequired(key), msgs)
          ELSE PresentChecks(c, key, rule, value, input, msgs)

\* one iteration of the loop over ruleKeys, up to the await of the custom
\* predicate (c.awaiting) or to the end of the iteration
FieldChecks(c, key, rule, input, msgs) ==
  IF input.kind # "object"
  THEN Throw(c, PropertyTypeError)
  ELSE LET value == Get(input, key)
       IN IF rule.skip # "none" /\ CallSkip(rule.skip, input)
          THEN c
          ELSE IF rule.required
                  /\ (StrictEquals(value, Str(<<>>))
                      \/ StrictEquals(value, Undefined))
          THEN RecordError(c, key, "required", DefaultRequired(key), msgs)
          ELSE IF StrictEquals(value, Undefined)
          THEN c
          ELSE PresentChecks(c, key, rule, value, input, msgs)

\* the continuation of the iteration once the custom predicate has settled
\* with customValid
AfterCustom(c, key, customValid, msgs) ==
  LET c1 == [c EXCEPT !.awaiting = FALSE,
                      !.events = Append(@, Event("settle", key, "custom",
                                                 Undefined))]
  IN IF ~customValid
     THEN RecordError(c1, key, "custom", DefaultCustom(key), msgs)
     ELSE c1

\* mutant of SettleCustom: a rejection is caught and counts as a failed
\* custom check
SettleCustomCatching(c, key, custom, value, msgs) ==
  AfterCustom(c, key, custom # "rejects" /\ CallCustom(custom, value), msgs)

\* the awaited custom predicate settles: a rejection is thrown at the
\* await and ends the call, a value goes to the test that follows
SettleCustom(c, key, custom, value, msgs) ==
  IF custom = "rejects"
  THEN Throw([c EXCEPT !.awaiting = FALSE,
                       !.events = Append(@, Event("settle", key, "custom",
                                                  Undefined))],
             CustomError)
  ELSE AfterCustom(c, key, CallCustom(custom, value), msgs)

\* one whole iteration of the loop over ruleKeys
EvalField(c, key, rule, input, msgs) ==
  LET c1 == FieldChecks(c, key, rule, input, msgs)
  IN IF c1.awaiting
     THEN SettleCustom(c1, key, rule.custom, Get(input, key), msgs)
     ELSE c1

\* mutant of EvalFields: the loop ends at the first field with an error
RECURSIVE EvalFieldsUpToFirstError(_, _, _, _, _, _)
EvalFieldsUpToFirstError(c, keys, i, rs, input, msgs) ==
  IF i > Len(keys) \/ c.thrown # <<>> \/ ~c.isValid
  THEN c
  ELSE EvalFieldsUpToFirstError(
         EvalField(c, keys[i], RuleOf(rs, keys[i]), input, msgs),
         keys, i + 1, rs, input, msgs)

\* the loop over ruleKeys from its i-th key on; an exception ends it
RECURSIVE EvalFields(_, _, _, _, _, _)
EvalFields(c, keys, i, rs, input, msgs) ==
  IF i > Len(keys) \/ c.thrown # <<>>
  THEN c
  ELSE EvalFields(EvalField(c, keys[i], RuleOf(rs, keys[i]), input, msgs),
                  keys, i + 1, rs, input, msgs)

Truthy(opts, name) == name \in DOMAIN opts /\ opts[name]

\* mutant of StrictScan: the scan flags every key of the input, declared
\* or not
StrictScanOfEveryKey(c, rs, input, opts) ==
  IF c.thrown = <<>> /\ Truthy(opts, "strictMode")
  THEN LET extra == DOMAIN input.fields
       IN [c EXCEPT
             !.errors = [k \in (DOMAIN @) \cup extra |->
                           IF k \in extra THEN StrictMessage(k) ELSE @[k]],
             !.isValid = IF extra # {} THEN FALSE ELSE @]
  ELSE c

\* mutant of StrictScan: the scan runs whatever options.strictMode is
StrictScanUnconditional(c, rs, input, opts) ==
  IF c.thrown = <<>>
  THEN LET extra == {k \in DOMAIN input.fields : ~HasRule(rs, k)}
       IN [c EXCEPT
             !.errors = [k \in (DOMAIN @) \cup extra |->
                           IF k \in extra THEN StrictMessage(k) ELSE @[k]],
             !.isValid = IF extra # {} THEN FALSE ELSE @]
  ELSE c

\* mutant of StrictScan: the scan records its errors and leaves isValid
StrictScanLeavingValid(c, rs, input, opts) ==
  IF c.thrown = <<>> /\ Truthy(opts, "strictMode")
  THEN LET extra == {k \in DOMAIN input.fields : ~HasRule(rs, k)}
       IN [c EXCEPT
             !.errors = [k \in (DOMAIN @) \cup extra |->
                           IF k \in extra THEN StrictMessage(k) ELSE @[k]]]
  ELSE c

\* the strict-mode scan: for (const key in input) if (!this.rules[key]) ...
StrictScan(c, rs, input, opts) ==
  IF c.thrown = <<>> /\ Truthy(opts, "strictMode")
  THEN LET extra == {k \in DOMAIN input.fields : ~HasRule(rs, k)}
       IN [c EXCEPT
             !.errors = [k \in (DOMAIN @) \cup extra |->
                           IF k \in extra THEN StrictMessage(k) ELSE @[k]],
             !.isValid = IF extra # {} THEN FALSE ELSE @]
  ELSE c

\* !this.errors[key]: no entry, or an entry that is the empty string
NoErrorFor(errs, key) == key \notin DOMAIN errs \/ errs[key] = <<>>

\* mutant of TrackPassed: passed is rebuilt by each call
TrackPassedAfresh(pass, errs, rs, input, opts) ==
  IF Truthy(opts, "trackPassedFields")
  THEN LET clean == {k \in Range(RuleKeys(rs)) : NoErrorFor(errs, k)}
       IN [k \in clean |-> Get(input, k)]
  ELSE EmptyMap

\* the loop that fills this.passed
TrackPassed(pass, errs, rs, input, opts) ==
  IF Truthy(opts, "trackPassedFields")
  THEN LET clean == {k \in Range(RuleKeys(rs)) : NoErrorFor(errs, k)}
       IN [k \in (DOMAIN pass) \cup clean |->
             IF k \in clean THEN Get(input, k) ELSE pass[k]]
  ELSE pass

\* typeof input !== "object" || Array.isArray(input)
RejectsInput(input) == InputTypeOf(input) # "object" \/ input.kind = "array"

\* mutant of StartCall: the errors of the earlier calls are kept
StartCallKeepingErrors ==
  [errors |-> errors, isValid |-> TRUE, thrown |-> <<>>, awaiting |-> FALSE,
   events |-> <<>>]

\* this.errors = {}; let isValid = true
StartCall == [errors |-> EmptyMap, isValid |-> TRUE, thrown |-> <<>>,
              awaiting |-> FALSE, events |-> <<>>]

\* mutant of ValidateCall: this.errors is cleared before the input is
\* tested
ValidateCallClearingFirst(self, input) ==
  IF RejectsInput(input)
  THEN [errors |-> EmptyMap, passed |-> self.passed,
        outcome |-> "threw", thrown |-> InputError, ret |-> FALSE,
        events |-> <<>>]
  ELSE LET c1 == EvalFields(StartCall, RuleKeys(self.rules), 1, self.rules,
                            input, self.messages)
           c2 == StrictScan(c1, self.rules, input, self.options)
       IN IF c2.thrown # <<>>
          THEN [errors |-> c2.errors, passed |-> self.passed,
                outcome |-> "threw", thrown |-> c2.thrown, ret |-> FALSE,
                events |-> c2.events]
          ELSE [errors |-> c2.errors,
                passed |-> TrackPassed(self.passed, c2.errors, self.rules,
                                       input, self.options),
                outcome |-> "returned", thrown |-> <<>>, ret |-> c2.isValid,
                events |-> c2.events]

\* a whole validate call on the instance self = [rules, messages, options,
\* errors, passed]: the fields of the instance afterwards and how the call
\* ended
ValidateCall(self, input) ==
  IF RejectsInput(input)
  THEN [errors |-> self.errors, passed |-> self.passed,
        outcome |-> "threw", thrown |-> InputError, ret |-> FALSE,
        events |-> <<>>]
  ELSE LET c1 == EvalFields(StartCall, RuleKeys(self.rules), 1, self.rules,
                            input, self.messages)
           c2 == StrictScan(c1, self.rules, input, self.options)
       IN IF c2.thrown # <<>>
          THEN [errors |-> c2.errors, passed |-> self.passed,
                outcome |-> "threw", thrown |-> c2.thrown, ret |-> FALSE,
                events |-> c2.events]
          ELSE [errors |-> c2.errors,
                passed |-> TrackPassed(self.passed, c2.errors, self.rules,
                                       input, self.options),
                outcome |-> "returned", thrown |-> <<>>, ret |-> c2.isValid,
                events |-> c2.events]

(***************************************************************************)
(* The operations of a Validator instance.  last records the operation     *)
(* that produced the state: its name, and for validate its input and how   *)
(* it ended (outcome "returned" with the boolean ret, or "threw" with the  *)
(* exception thrown) and the events of the call; dropped tells whether     *)
(* some field had an error before the call and has none after it (for      *)
(* reset: whether errors and passed both had entries before it); keys are  *)
(* the keys of the partial object an update was called with and partial    *)
(* is that object.                                                         *)
(***************************************************************************)
NoCall(op) ==
  [op |-> op, input |-> OtherInput("undefined"), outcome |-> "returned",
   ret |-> FALSE, thrown |-> <<>>, dropped |-> FALSE, events |-> <<>>,
   keys |-> {}, partial |-> EmptyMap]

Self ==
  [rules |-> rules, messages |-> messages, options |-> options,
   errors |-> errors, passed |-> passed]

\* await validator.validate(input)
Validate(input) ==
  LET r == ValidateCall(Self, input)
  IN /\ errors' = r.errors
     /\ passed' = r.passed
     /\ last' = [op |-> "validate", input |-> input, outcome |-> r.outcome,
                 ret |-> r.ret, thrown |-> r.thrown,
                 dropped |-> \E k \in DOMAIN errors : k \notin DOMAIN r.errors,
                 events |-> r.events, keys |-> {}, partial |-> EmptyMap]
     /\ UNCHANGED <<rules, messages, options, calls>>

\* mutant of Reset: passed is left as it is
ResetErrorsOnly ==
  /\ errors' = EmptyMap
  /\ passed' = passed
  /\ last' = [NoCall("reset") EXCEPT
                !.dropped = errors # EmptyMap /\ passed # EmptyMap]
  /\ UNCHANGED <<rules, messages, options, calls>>

Reset ==
  /\ errors' = EmptyMap
  /\ passed' = EmptyMap
  /\ last' = [NoCall("reset") EXCEPT
                !.dropped = errors # EmptyMap /\ passed # EmptyMap]
  /\ UNCHANGED <<rules, messages, options, calls>>

UpdateRules(newRules) ==
  /\ rules' = SpreadRules(rules, newRules)
  /\ last' = [NoCall("updateRules") EXCEPT
                !.keys = Range(RuleKeys(newRules)),
                !.partial = [k \in Range(RuleKeys(newRules)) |->
                               RuleOf(newRules, k)]]
  /\ UNCHANGED <<messages, options, errors, passed, calls>>

\* mutant of UpdateMessages: the message object of a field that has one
\* is merged kind by kind instead of being replaced
UpdateMessagesMerging(newMessages) ==
  /\ messages' = [k \in (DOMAIN messages) \cup (DOMAIN newMessages) |->
                    IF k \in (DOMAIN messages) \cap (DOMAIN newMessages)
                    THEN Spread(messages[k], newMessages[k])
                    ELSE Spread(messages, newMessages)[k]]
  /\ last' = [NoCall("updateMessages") EXCEPT !.keys = DOMAIN newMessages,
                                              !.partial = newMessages]
  /\ UNCHANGED <<rules, options, errors, passed, calls>>

UpdateMessages(newMessages) ==
  /\ messages' = Spread(messages, newMessages)
  /\ last' = [NoCall("updateMessages") EXCEPT !.keys = DOMAIN newMessages,
                                              !.partial = newMessages]
  /\ UNCHANGED <<rules, options, errors, passed, calls>>

UpdateOptions(newOptions) ==
  /\ options' = Spread(options, newOptions)
  /\ last' = [NoCall("updateOptions") EXCEPT !.keys = DOMAIN newOptions,
                                             !.partial = newOptions]
  /\ UNCHANGED <<rules, messages, errors, passed, calls>>

(***************************************************************************)
(* validate calls that are not awaited one by one.  validate is an async   *)
(* function: it runs without interruption from its start, or from the      *)
(* settling of the custom predicate it awaits, up to the next await or to  *)
(* its return, and other calls on the instance can run while it is         *)
(* suspended.  calls[id] is the state of call id: its status ("idle",      *)
(* "awaiting" a custom predicate, "done"), its input, the ruleKeys it      *)
(* cached, the index i of the field whose custom predicate it awaits and   *)
(* that predicate (custom, the one of the rule the iteration read), its    *)
(* local isValid, how it ended (thrown, ret), its events, the calls that   *)
(* were suspended when it started (during) and this.errors as it was when  *)
(* the call ended (errors).  this.errors and this.passed are the shared    *)
(* fields of the instance.                                                 *)
(***************************************************************************)
CallIds == {1, 2}

IdleCall ==
  [status |-> "idle", input |-> OtherInput("undefined"), ruleKeys |-> <<>>,
   i |-> 0, custom |-> "none", isValid |-> TRUE, thrown |-> <<>>,
   ret |-> FALSE, events |-> <<>>, during |-> {}, errors |-> EmptyMap]

\* mutant of RunToAwait: the loop starts the checks of the next field
\* before the custom predicate it awaits has settled
RECURSIVE RunPastAwait(_, _, _, _, _, _)
RunPastAwait(c, keys, i, rs, input, msgs) ==
  IF i > Len(keys) \/ c.thrown # <<>>
  THEN [c |-> c, i |-> i]
  ELSE LET c1 == FieldChecks(c, keys[i], RuleOf(rs, keys[i]), input, msgs)
       IN IF c1.awaiting
          THEN IF i < Len(keys)
               THEN [c |-> [FieldChecks(c1, keys[i + 1], RuleOf(rs, keys[i + 1]),
                                        input, msgs)
                              EXCEPT !.awaiting = TRUE],
                     i |-> i]
               ELSE [c |-> c1, i |-> i]
          ELSE RunPastAwait(c1, keys, i + 1, rs, input, msgs)

\* mutant of RunToAwait: the loop does not yield at a custom predicate, it
\* takes the result at once and goes on
RunWithoutYield(c, keys, i, rs, input, msgs) ==
  [c |-> EvalFields(c, keys, i, rs, input, msgs), i |-> Len(keys) + 1]

\* the loop over ruleKeys from its i-th key on, up to the first await of a
\* custom predicate (c.awaiting, at key i of the result), to an exception
\* or to the end of the loop
RECURSIVE RunToAwait(_, _, _, _, _, _)
RunToAwait(c, keys, i, rs, input, msgs) ==
  IF i > Len(keys) \/ c.thrown # <<>>
  THEN [c |-> c, i |-> i]
  ELSE LET c1 == FieldChecks(c, keys[i], RuleOf(rs, keys[i]), input, msgs)
       IN IF c1.awaiting
          THEN [c |-> c1, i |-> i]
          ELSE RunToAwait(c1, keys, i + 1, rs, input, msgs)

\* what follows the loop, once it has ended without an exception: the
\* strict-mode scan, the population of this.passed and the return
AfterLoop(c, pass, rs, input, opts) ==
  LET c1 == StrictScan(c, rs, input, opts)
      c2 == [c1 EXCEPT !.events = Append(@, Event("scan", "", "strict",
                                                  Undefined))]
  IN [c |-> [c2 EXCEPT !.events = Append(@, Event("populate", "", "passed",
                                                  Undefined))],
      passed |-> TrackPassed(pass, c2.errors, rs, input, opts)]

\* call id, in state call, has run up to r = [c, i]: it is suspended on the
\* custom predicate of key i, or it has thrown, or it runs to its return
Proceed(id, call, r) ==
  IF r.c.awaiting
  THEN /\ calls' = [calls EXCEPT ![id] =
                      [call EXCEPT !.status = "awaiting", !.i = r.i,
                                   !.custom =
                                     RuleOf(rules, call.ruleKeys[r.i]).custom,
                                   !.isValid = r.c.isValid,
                                   !.events = r.c.events]]
       /\ errors' = r.c.errors
       /\ passed' = passed
  ELSE IF r.c.thrown # <<>>
  THEN /\ calls' = [calls EXCEPT ![id] =
                      [call EXCEPT !.status = "done", !.thrown = r.c.thrown,
                                   !.isValid = r.c.isValid,
                                   !.events = r.c.events,
                                   !.errors = r.c.errors]]
       /\ errors' = r.c.errors
       /\ passed' = passed
  ELSE LET f == AfterLoop(r.c, passed, rules, call.input, options)
       IN /\ calls' = [calls EXCEPT ![id] =
                         [call EXCEPT !.status = "done", !.ret = f.c.isValid,
                                      !.isValid = f.c.isValid,
                                      !.events = f.c.events,
                                      !.errors = f.c.errors]]
          /\ errors' = f.c.errors
          /\ passed' = f.passed

\* validator.validate(input) is called: the call runs to its first await
StartValidate(id, input) ==
  /\ calls[id].status = "idle"
  /\ IF RejectsInput(input)
     THEN /\ calls' = [calls EXCEPT ![id] =
                         [IdleCall EXCEPT !.status = "done", !.input = input,
                                          !.thrown = InputError]]
          /\ UNCHANGED <<errors, passed>>
     ELSE Proceed(id,
                  [IdleCall EXCEPT
                     !.input = input, !.ruleKeys = RuleKeys(rules),
                     !.during = {j \in CallIds : calls[j].status = "awaiting"}],
                  RunToAwait(StartCall, RuleKeys(rules), 1, rules, input,
                             messages))
  /\ UNCHANGED <<rules, messages, options, last>>

\* mutant of ResumeValidate: the loop goes on from the field it awaited,
\* not from the next one
ResumeValidateSameField(id) ==
  /\ calls[id].status = "awaiting"
  /\ calls[id].custom # "never"
  /\ LET call == calls[id]
         key == call.ruleKeys[call.i]
         c == [errors |-> errors, isValid |-> call.isValid, thrown |-> <<>>,
               awaiting |-> TRUE, events |-> call.events]
         c1 == SettleCustom(c, key, call.custom, Get(call.input, key),
                            messages)
     IN Proceed(id, call,
                RunToAwait(c1, call.ruleKeys, call.i, rules, call.input,
                           messages))
  /\ UNCHANGED <<rules, messages, options, last>>

\* the custom predicate that call id awaits settles: the call goes on to
\* its next await or to its return
ResumeValidate(id) ==
  /\ calls[id].status = "awaiting"
  /\ calls[id].custom # "never"
  /\ LET call == calls[id]
         key == call.ruleKeys[call.i]
         c == [errors |-> errors, isValid |-> call.isValid, thrown |-> <<>>,
               awaiting |-> TRUE, events |-> call.events]
         c1 == SettleCustom(c, key, call.custom, Get(call.input, key),
                            messages)
     IN Proceed(id, call,
                RunToAwait(c1, call.ruleKeys, call.i + 1, rules, call.input,
                           messages))
  /\ UNCHANGED <<rules, messages, options, last>>

\* new Validator(rs, msgs, opts)
Construct(rs, msgs, opts) ==
  /\ rules = rs
  /\ messages = msgs
  /\ options = opts
  /\ errors = EmptyMap
  /\ passed = EmptyMap
  /\ last = NoCall("new")
  /\ calls = [id \in CallIds |-> IdleCall]

(***************************************************************************)
(* The universe of the checks: field names, messages, values.              *)
(***************************************************************************)
Kinds ==
  {"type", "required", "min", "max", "validate", "match", "regex", "custom"}

\* a message object that configures every kind, e.g. "configured min"
FullMessage == [k \in Kinds |-> <<"configured ", k>>]

\* a message object that configures every kind as the empty string
BlankMessage == [k \in Kinds |-> <<>>]

Entry(key, rule) == [key |-> key, rule |-> rule]

EmailString == Str(<<"a", "@", "b", ".", "c", "o">>)

Strings == {Str(Rep("a", n)) : n \in 0..MaxStrLen}

Numbers == {Num(h) : h \in 1..MaxHalves}

OptionSets ==
  {EmptyMap, [trackPassedFields |-> TRUE], [strictMode |-> TRUE],
   [trackPassedFields |-> TRUE, strictMode |-> TRUE]}

\* the keyed records with a value of as under "a", of bs under "b" and of
\* xs under "x", Undefined standing for a key that is not there
Records(as, bs, xs) ==
  {ObjectInput([k \in {q \in {"a", "b", "x"} :
                         [a |-> va, b |-> vb, x |-> vx][q] # Undefined} |->
                 [a |-> va, b |-> vb, x |-> vx][k]]) :
     va \in as, vb \in bs, vx \in xs}

(***************************************************************************)
(* Spec: the life of one instance, every call awaited before the next.     *)
(***************************************************************************)
RequiredString == [NoRule EXCEPT !.type = "string", !.required = TRUE]

OptionalLong == [NoRule EXCEPT !.type = "string", !.min = <<4>>]

NeverValid == [NoRule EXCEPT !.custom = "alwaysFalse"]

LifeInputs ==
  Records({Undefined, Str(<<>>), Str(Rep("a", MaxStrLen))},
          {Undefined, Str(<<"a">>)}, {Undefined, Str(<<"a">>)})
    \cup {OtherInput("array")}

LifeRuleUpdates ==
  {<<Entry("a", RequiredString)>>, <<Entry("a", OptionalLong)>>,
   <<Entry("b", NeverValid)>>}

\* a message object that configures the type message alone
TypeMessageOnly == [type |-> FullMessage["type"]]

LifeMessageUpdates ==
  {[a |-> FullMessage], [a |-> BlankMessage], [a |-> TypeMessageOnly]}

LifeOptionUpdates ==
  {[trackPassedFields |-> TRUE], [trackPassedFields |-> FALSE],
   [strictMode |-> TRUE]}

Init ==
  \E rs \in {<<Entry("a", RequiredString)>>,
              <<Entry("a", RequiredString), Entry("b", NeverValid)>>},
     opts \in OptionSets :
    Construct(rs, [a |-> FullMessage, b |-> FullMessage], opts)

Next ==
  \/ \E input \in LifeInputs : Validate(input)
  \/ Reset
  \/ \E newRules \in LifeRuleUpdates : UpdateRules(newRules)
  \/ \E newMessages \in LifeMessageUpdates : UpdateMessages(newMessages)
  \/ \E newOptions \in LifeOptionUpdates : UpdateOptions(newOptions)

Spec == Init /\ [][Next]_vars

(***************************************************************************)
(* SpecCall: one validate call on a freshly constructed instance, over a   *)
(* wide choice of rules for the field "a", of messages, of options and of  *)
(* inputs.                                                                 *)
(***************************************************************************)
\* rule r with every attribute that rule d declares taken from d
Overlay(r, d) ==
  [type |-> IF d.type # "none" THEN d.type ELSE r.type,
   required |-> d.required \/ r.required,
   min |-> IF d.min # <<>> THEN d.min ELSE r.min,
   max |-> IF d.max # <<>> THEN d.max ELSE r.max,
   validate |-> IF d.validate # "none" THEN d.validate ELSE r.validate,
   match |-> IF d.match # <<>> THEN d.match ELSE r.match,
   regex |-> IF d.regex # "none" THEN d.regex ELSE r.regex,
   custom |-> IF d.custom # "none" THEN d.custom ELSE r.custom,
   skip |-> IF d.skip # "none" THEN d.skip ELSE r.skip]

\* rules that declare one attribute (min is 1.5 and max is 0.5, so that a
\* value can fail both)
CoreRules ==
  {[NoRule EXCEPT !.type = "string"], [NoRule EXCEPT !.type = "number"],
   [NoRule EXCEPT !.required = TRUE], [NoRule EXCEPT !.min = <<3>>],
   [NoRule EXCEPT !.max = <<1>>], [NoRule EXCEPT !.validate = "email"],
   [NoRule EXCEPT !.match = <<"b">>], [NoRule EXCEPT !.regex = "lower"],
   [NoRule EXCEPT !.custom = "alwaysFalse"], [NoRule EXCEPT !.skip = "always"]}

OtherRules ==
  {NoRule, [NoRule EXCEPT !.type = "integer"], [NoRule EXCEPT !.type = "float"],
   [NoRule EXCEPT !.type = "boolean"], [NoRule EXCEPT !.type = "date"],
   [NoRule EXCEPT !.custom = "isString"], [NoRule EXCEPT !.skip = "ifNoB"],
   [NoRule EXCEPT !.regex = "digits"], [NoRule EXCEPT !.min = <<2>>, !.max = <<2>>]}

\* a rule that declares every check, with min above max
EveryCheck(type, custom) ==
  [type |-> type, required |-> TRUE, min |-> <<4>>, max |-> <<0>>,
   validate |-> "email", match |-> <<"b">>, regex |-> "digits",
   custom |-> custom, skip |-> "never"]

\* the rules of "a": one attribute, two attributes, or every attribute
CallRules ==
  {Overlay(r, d) : r \in CoreRules, d \in CoreRules} \cup OtherRules
    \cup {EveryCheck("number", "alwaysFalse"), EveryCheck("string", "alwaysTrue"),
          EveryCheck("float", "alwaysFalse")}

CallValues ==
  Strings \cup Numbers
    \cup {Undefined, Null, Bool(TRUE), DateObj(TRUE, 1), DateObj(FALSE, 2),
          EmailString}

\* "b" can hold the string "1", which only a coercing comparison finds
\* equal to the number 1
CallInputs ==
  Records(CallValues, {Undefined, Str(<<"a">>), Str(<<"1">>)},
          {Undefined, Str(<<"a">>)})
    \cup {OtherInput("null"), OtherInput("undefined"), OtherInput("array"),
          OtherInput("number")}

\* messages: no entry for "a", an entry configuring nothing, every kind
\* configured, every kind configured as the empty string
CallMessages ==
  {[b |-> FullMessage], [a |-> EmptyMap, b |-> FullMessage],
   [a |-> FullMessage, b |-> FullMessage],
   [a |-> BlankMessage, b |-> FullMessage]}

InitCall ==
  \E ra \in CallRules,
     rest \in {<<>>, <<Entry("b", RequiredString)>>},
     msgs \in CallMessages, opts \in OptionSets :
    Construct(<<Entry("a", ra)>> \o rest, msgs, opts)

NextCall == \E input \in CallInputs : last.op = "new" /\ Validate(input)

SpecCall == InitCall /\ [][NextCall]_vars

(***************************************************************************)
(* SpecOverlap: two validate calls on one instance that are started        *)
(* without awaiting each other, so that one can start and run while the    *)
(* other is suspended on a custom predicate.                               *)
(***************************************************************************)
OnlyStrings == [NoRule EXCEPT !.custom = "isString"]

StringNeverValid == [NoRule EXCEPT !.type = "string", !.custom = "alwaysFalse"]

OverlapRules ==
  {<<Entry("a", RequiredString), Entry("b", OnlyStrings)>>,
   <<Entry("a", StringNeverValid), Entry("b", OnlyStrings)>>}

OverlapInputs ==
  Records({Undefined, Str(<<>>), Str(<<"a">>)},
          {Undefined, Str(<<"a">>), Num(2)}, {Undefined, Str(<<"a">>)})
    \cup {OtherInput("array")}

InitOverlap ==
  \E rs \in OverlapRules, opts \in OptionSets :
    Construct(rs, [a |-> FullMessage, b |-> FullMessage], opts)

NextOverlap ==
  \/ \E id \in CallIds, input \in OverlapInputs : StartValidate(id, input)
  \/ \E id \in CallIds : ResumeValidate(id)

SpecOverlap == InitOverlap /\ [][NextOverlap]_vars

(***************************************************************************)
(* What the claims speak of, stated on the state a validate call leaves:   *)
(* the checks a field's value fails under its rule, in the fixed order.    *)
(***************************************************************************)
(***************************************************************************)
(* SpecRace: SpecOverlap with calls of updateRules that can run while a    *)
(* validate call is suspended.                                             *)
(***************************************************************************)
RaceRuleUpdates == {<<Entry("x", RequiredString)>>}

NextRace ==
  \/ \E id \in CallIds, input \in OverlapInputs : StartValidate(id, input)
  \/ \E id \in CallIds : ResumeValidate(id)
  \/ \E newRules \in RaceRuleUpdates : UpdateRules(newRules)

SpecRace == InitOverlap /\ [][NextRace]_vars

(***************************************************************************)
(* SpecThrow: the life of an instance one of whose custom predicates       *)
(* throws or rejects, every call awaited before the next.                  *)
(***************************************************************************)
StringThrowing == [NoRule EXCEPT !.type = "string", !.custom = "throws"]

StringRejecting == [NoRule EXCEPT !.type = "string", !.custom = "rejects"]

ThrowRules ==
  {<<Entry("a", StringThrowing), Entry("b", RequiredString)>>,
   <<Entry("a", StringRejecting), Entry("b", RequiredString)>>,
   <<Entry("a", RequiredString), Entry("b", StringRejecting)>>}

ThrowInputs ==
  Records({Undefined, Str(<<"a">>), Num(2)}, {Undefined, Str(<<"a">>), Num(2)},
          {Undefined})

InitThrow ==
  \E rs \in ThrowRules, opts \in OptionSets :
    Construct(rs, [a |-> FullMessage, b |-> FullMessage], opts)

NextThrow ==
  \/ \E input \in ThrowInputs : Validate(input)
  \/ Reset

SpecThrow == InitThrow /\ [][NextThrow]_vars

(***************************************************************************)
(* SpecLive: validate calls stepped from await to await, on an instance    *)
(* one of whose custom predicates can be a promise that never settles.     *)
(* The weak fairness of ResumeValidate says that a custom predicate that   *)
(* settles does so eventually and that the event loop then resumes the     *)
(* call.                                                                   *)
(***************************************************************************)
NeverSettles == [NoRule EXCEPT !.custom = "never"]

LiveRules ==
  {<<Entry("a", StringNeverValid), Entry("b", OnlyStrings)>>,
   <<Entry("a", OnlyStrings), Entry("b", NeverSettles)>>,
   <<Entry("a", NeverSettles), Entry("b", RequiredString)>>,
   <<Entry("a", OnlyStrings), Entry("b", StringRejecting)>>}

LiveInputs ==
  Records({Undefined, Str(<<"a">>)}, {Undefined, Str(<<"a">>)},
          {Undefined, Str(<<"a">>)})

LiveOptionSets == {EmptyMap, [trackPassedFields |-> TRUE, strictMode |-> TRUE]}

InitLive ==
  \E rs \in LiveRules, opts \in LiveOptionSets :
    Construct(rs, [a |-> FullMessage, b |-> FullMessage], opts)

NextLive ==
  \/ \E id \in CallIds, input \in LiveInputs : StartValidate(id, input)
  \/ \E id \in CallIds : ResumeValidate(id)

SpecLive ==
  /\ InitLive
  /\ [][NextLive]_vars
  /\ \A id \in CallIds : WF_vars(ResumeValidate(id))

Completed == last.op = "validate" /\ last.outcome = "returned"

KeyedInput == last.op = "validate" /\ last.input.kind = "object"

Declared == Range(RuleKeys(rules))

CheckOrder ==
  <<"type", "min", "max", "validate", "match", "regex", "custom">>

Skipped(rule, input) == rule.skip # "none" /\ CallSkip(rule.skip, input)

RequiredEmpty(rule, value) ==
  rule.required /\ (value = Str(<<>>) \/ value = Undefined)

\* the check of kind k fails for this value
KindFails(k, rule, value, input) ==
  CASE k = "type" -> TypeMismatch(rule, value)
    [] k = "min" -> BelowMin(rule, value)
    [] k = "max" -> AboveMax(rule, value)
    [] k = "validate" -> rule.validate = "email" /\ ~isEmail(value)
    [] k = "match" ->
         rule.match # <<>> /\ ~StrictEquals(value, Get(input, rule.match[1]))
    [] k = "regex" -> rule.regex # "none" /\ ~isValidRegex(value, rule.regex)
    [] k = "custom" -> rule.custom # "none" /\ ~CallCustom(rule.custom, value)

\* the positions in CheckOrder of the checks that fail for field f, when f
\* is present and not skipped
FailingChecks(f, input) ==
  LET rule == RuleOf(rules, f)
      value == Get(input, f)
  IN IF Skipped(rule, input) \/ RequiredEmpty(rule, value) \/ value = Undefined
     THEN {}
     ELSE {i \in DOMAIN CheckOrder : KindFails(CheckOrder[i], rule, value, input)}

Last(S) == CHOOSE i \in S : \A j \in S : j <= i

DefaultMessage(k, f, rule, value) ==
  CASE k = "required" -> DefaultRequired(f)
    [] k = "type" -> DefaultType(rule, value)
    [] k = "min" -> DefaultMin(f, rule)
    [] k = "max" -> DefaultMax(f, rule)
    [] k = "validate" -> DefaultValidate(f)
    [] k = "match" -> DefaultMatch(f, rule)
    [] k = "regex" -> DefaultRegex(f)
    [] k = "custom" -> DefaultCustom(f)

\* the message of kind k for field f: the configured one, else the default
MessageOf(k, f, input) ==
  IF f \in DOMAIN messages /\ k \in DOMAIN messages[f]
  THEN messages[f][k]
  ELSE DefaultMessage(k, f, RuleOf(rules, f), Get(input, f))

\* field f is required and empty or absent, and not skipped
FailsRequired(f, input) ==
  /\ ~Skipped(RuleOf(rules, f), input)
  /\ RequiredEmpty(RuleOf(rules, f), Get(input, f))

\* the error that field f should end a call on this input with
ExpectedError(f, input) ==
  IF FailsRequired(f, input)
  THEN MessageOf("required", f, input)
  ELSE MessageOf(CheckOrder[Last(FailingChecks(f, input))], f, input)

ShouldFail(f, input) == FailsRequired(f, input) \/ FailingChecks(f, input) # {}

ExtraKeys(input) == {k \in DOMAIN input.fields : ~HasRule(rules, k)}

(***************************************************************************)
(* C1.  After any sequence of validate, reset, updateRules, updateMessages *)
(* and updateOptions calls, no field name is a key of both the errors map  *)
(* and the passed map.  (Refuted: passed keeps the entry of a field that   *)
(* passed in an earlier call and fails in this one.)                       *)
(***************************************************************************)
C1_ErrorsPassedDisjoint == (DOMAIN errors) \cap (DOMAIN passed) = {}

(***************************************************************************)
(* C2.  When several checks fail for one present, non-skipped field in a   *)
(* validate call, the error left for that field is the message of the last *)
(* failing check in the order type, min, max, validate, match, regex,      *)
(* custom.                                                                 *)
(***************************************************************************)
C2_LastFailingCheckWins ==
  Completed =>
    \A f \in Declared :
      FailingChecks(f, last.input) # {} =>
        /\ f \in DOMAIN errors
        /\ errors[f] =
             MessageOf(CheckOrder[Last(FailingChecks(f, last.input))], f,
                       last.input)

\* several checks failed for "a", min and max among them, and a later one
C2_Witness ==
  /\ Completed
  /\ HasRule(rules, "a")
  /\ {2, 3} \subseteq FailingChecks("a", last.input)
  /\ Cardinality(FailingChecks("a", last.input)) >= 4
  /\ errors["a"] = MessageOf("custom", "a", last.input)

(***************************************************************************)
(* C3.  validate returns true if and only if the errors map has no entry   *)
(* when the call completes, whatever the configured message strings are.   *)
(***************************************************************************)
C3_ReturnsTrueIffNoErrors ==
  Completed =>
    /\ last.ret = (DOMAIN errors = {})
    /\ last.ret =
         ~(\/ \E f \in Declared : ShouldFail(f, last.input)
           \/ Truthy(options, "strictMode") /\ ExtraKeys(last.input) # {})

\* false on a strict-mode error alone, and false on an empty-string error
C3_Witness ==
  /\ Completed
  /\ ~last.ret
  /\ \/ DOMAIN errors = {"x"}
     \/ DOMAIN errors = {"a"} /\ errors["a"] = <<>>

(***************************************************************************)
(* C4.  validate throws only for a malformed input: it rejects with        *)
(* 'Input must be an object.' when input is an array or a primitive        *)
(* (including null and undefined), and for every keyed-record input it     *)
(* resolves to a boolean without throwing, whatever rules and messages are *)
(* configured.  (Refuted: null is not rejected with that error, and a      *)
(* failing field with no messages entry throws a TypeError.)               *)
(***************************************************************************)
C4_ThrowsOnlyOnMalformedInput ==
  last.op = "validate" =>
    IF last.input.kind = "object"
    THEN last.outcome = "returned"
    ELSE last.outcome = "threw" /\ last.thrown = InputError

(***************************************************************************)
(* C5.  When a check fails for a declared field that has no entry in the   *)
(* messages map, validate records the generated default message for that   *)
(* failure under the field's name and returns false.  (Refuted: reading    *)
(* the message of a field with no messages entry throws.)                  *)
(***************************************************************************)
C5_DefaultWhenNoMessagesEntry ==
  KeyedInput =>
    \A f \in Declared :
      (f \notin DOMAIN messages /\ ShouldFail(f, last.input)) =>
        /\ last.outcome = "returned"
        /\ ~last.ret
        /\ f \in DOMAIN errors
        /\ errors[f] = ExpectedError(f, last.input)

(***************************************************************************)
(* C6.  For a non-skipped field with required: true whose value is the     *)
(* empty string or absent, the field's error after validate is exactly the *)
(* configured required message, or the generated default when none is      *)
(* configured, and validate returns false.  (Refuted for a field with no   *)
(* messages entry, where the call throws: see C5.)                         *)
(***************************************************************************)
C6_RequiredMessage ==
  KeyedInput =>
    \A f \in Declared :
      FailsRequired(f, last.input) =>
        /\ last.outcome = "returned"
        /\ ~last.ret
        /\ f \in DOMAIN errors
        /\ errors[f] = MessageOf("required", f, last.input)

(***************************************************************************)
(* C7.  For every rule that is not required and whose field is absent from *)
(* the input, no error key for that field appears after validate, whatever *)
(* other attributes the rule declares.                                     *)
(***************************************************************************)
C7_OptionalAbsentHasNoError ==
  KeyedInput =>
    \A f \in Declared :
      (~RuleOf(rules, f).required /\ f \notin DOMAIN last.input.fields) =>
        f \notin DOMAIN errors

\* "a" is optional and absent, under a rule that declares other checks
C7_Witness ==
  /\ Completed
  /\ HasRule(rules, "a")
  /\ ~RuleOf(rules, "a").required
  /\ RuleOf(rules, "a").type = "string"
  /\ RuleOf(rules, "a").custom = "alwaysFalse"
  /\ "a" \notin DOMAIN last.input.fields
  /\ "a" \notin DOMAIN errors

(***************************************************************************)
(* C8.  After a validate call completes, the errors map contains exactly   *)
(* the entries produced by that call: no entry of an earlier call          *)
(* survives, and the errors depend only on the current rules, messages,    *)
(* options and this input.                                                 *)
(***************************************************************************)
C8_ErrorsAreThisCallsErrors ==
  Completed =>
    /\ DOMAIN errors =
         {f \in Declared : ShouldFail(f, last.input)}
           \cup (IF Truthy(options, "strictMode")
                 THEN ExtraKeys(last.input) ELSE {})
    /\ \A k \in DOMAIN errors :
         errors[k] = IF HasRule(rules, k) THEN ExpectedError(k, last.input)
                     ELSE StrictMessage(k)

\* a field that had an error before the call has none after it
C8_Witness == Completed /\ last.dropped

(***************************************************************************)
(* C9.  An entry written to passed by one validate call is still in passed *)
(* after any number of later validate calls, whether or not that field     *)
(* passes in them, until reset() is called: validate never removes an      *)
(* entry, and changes the value of one only by writing this call's input   *)
(* value.                                                                  *)
(***************************************************************************)
C9_PassedAccumulates ==
  [][last'.op # "reset" =>
       \A k \in DOMAIN passed :
         /\ k \in DOMAIN passed'
         /\ \/ passed'[k] = passed[k]
            \/ last'.op = "validate" /\ passed'[k] = Get(last'.input, k)]_vars

\* "a" keeps its entry in passed through a call in which it fails
C9_Witness ==
  /\ Completed
  /\ "a" \in DOMAIN errors
  /\ errors["a"] # <<>>
  /\ "a" \in DOMAIN passed
  /\ passed["a"] # Get(last.input, "a")

(***************************************************************************)
(* C10.  When trackPassedFields is true, a completed validate(input) sets  *)
(* passed[f] to input[f] for every declared field f that ended the call    *)
(* with no recorded error and writes no field that has a recorded error,   *)
(* whatever the configured message strings are; when trackPassedFields is  *)
(* false or unset, validate writes nothing to passed.  (Refuted: a field   *)
(* whose recorded error is the empty string is written to passed.)         *)
(***************************************************************************)
C10_PassedIsTheFieldsWithoutError ==
  Completed =>
    IF Truthy(options, "trackPassedFields")
    THEN /\ DOMAIN passed = Declared \ DOMAIN errors
         /\ \A f \in DOMAIN passed : passed[f] = Get(last.input, f)
    ELSE passed = EmptyMap

C12_ResetClearsBothMaps ==
  [][last'.op = "reset" =>
       /\ errors' = EmptyMap
       /\ passed' = EmptyMap
       /\ rules' = rules
       /\ messages' = messages
       /\ options' = options]_vars

\* a reset of an instance whose errors and passed both had entries
C12_Witness ==
  /\ last.op = "reset"
  /\ last.dropped
  /\ errors = EmptyMap
  /\ passed = EmptyMap

(***************************************************************************)
(* C13.  updateRules(partial), updateMessages(partial) and                 *)
(* updateOptions(partial) each leave every key not mentioned in partial    *)
(* with its previous value, and none of them changes errors or passed or   *)
(* the other two configuration maps.                                       *)
(***************************************************************************)
RulesAsMap(rs) == [k \in Range(RuleKeys(rs)) |-> RuleOf(rs, k)]

\* every key of old outside the keys of partial is in new with its value
KeepsOtherKeys(old, new, partialKeys) ==
  \A k \in (DOMAIN old) \ partialKeys : k \in DOMAIN new /\ new[k] = old[k]

C13_UpdatesMergeShallowly ==
  [][/\ last'.op = "updateRules" =>
          /\ KeepsOtherKeys(RulesAsMap(rules), RulesAsMap(rules'),
                            last'.keys)
          /\ UNCHANGED <<messages, options, errors, passed>>
     /\ last'.op = "updateMessages" =>
          /\ KeepsOtherKeys(messages, messages', last'.keys)
          /\ UNCHANGED <<rules, options, errors, passed>>
     /\ last'.op = "updateOptions" =>
          /\ KeepsOtherKeys(options, options', last'.keys)
          /\ UNCHANGED <<rules, messages, errors, passed>>]_vars

\* an updateOptions after which an option it did not mention is still set
C13_Witness ==
  /\ last.op = "updateOptions"
  /\ last.keys = {"trackPassedFields"}
  /\ DOMAIN options = {"trackPassedFields", "strictMode"}
  /\ ~options["trackPassedFields"]
  /\ options["strictMode"]
  /\ errors # EmptyMap
  /\ passed # EmptyMap

(***************************************************************************)
(* C14.  If a rule's skip predicate evaluates true on the input record,    *)
(* that field records no error in the validate call regardless of every    *)
(* other attribute of the rule and of the field's value (even required     *)
(* with an absent value), and none of its other checks, including custom,  *)
(* is evaluated: the call writes no error for the field and does not call  *)
(* its custom predicate.                                                   *)
(***************************************************************************)
EventsOf(f) == {i \in DOMAIN last.events : last.events[i].key = f}

C14_SkippedFieldIsNotEvaluated ==
  KeyedInput =>
    \A f \in Declared :
      Skipped(RuleOf(rules, f), last.input) =>
        f \notin DOMAIN errors /\ EventsOf(f) = {}

\* a skipped field that is required and absent, in a call that returned
C14_Witness ==
  /\ Completed
  /\ Skipped(RuleOf(rules, "a"), last.input)
  /\ RuleOf(rules, "a").required
  /\ Get(last.input, "a") = Undefined
  /\ "a" \notin DOMAIN errors
  /\ last.ret

(***************************************************************************)
(* C15.  For a field f whose rule has match: g, when both input[f] and     *)
(* input[g] are present, f records no match error if and only if input[f]  *)
(* and input[g] are strictly equal (same kind and same value, no           *)
(* coercion).  Stated of the calls that returned and of the fields whose   *)
(* checks run (not skipped, not required-empty).                           *)
(***************************************************************************)
\* the checks of field f run: f is not skipped and its value is present
Evaluated(f, input) ==
  /\ ~Skipped(RuleOf(rules, f), input)
  /\ Get(input, f) # Undefined
  /\ ~RequiredEmpty(RuleOf(rules, f), Get(input, f))

\* the call wrote an error of kind k for field f
Recorded(f, k) ==
  \E i \in DOMAIN last.events :
    /\ last.events[i].ev = "record"
    /\ last.events[i].key = f
    /\ last.events[i].kind = k

C15_MatchIsStrictEquality ==
  Completed =>
    \A f \in Declared :
      LET rule == RuleOf(rules, f)
      IN (/\ rule.match # <<>>
          /\ Evaluated(f, last.input)
          /\ Get(last.input, rule.match[1]) # Undefined)
           => (~Recorded(f, "match")
                 <=> Get(last.input, f) = Get(last.input, rule.match[1]))

\* the number 1 against the string "1": a match error is recorded
C15_Witness ==
  /\ Completed
  /\ RuleOf(rules, "a").match = <<"b">>
  /\ Get(last.input, "a") = Num(2)
  /\ Get(last.input, "b") = Str(<<"1">>)
  /\ Recorded("a", "match")
  /\ ~last.ret

(***************************************************************************)
(* C16.  For a present value v and declared bounds: if v is a string a min *)
(* error is recorded iff length(v) < min and a max error iff length(v) >   *)
(* max; if v is a number a min error is recorded iff v < min and a max     *)
(* error iff v > max; a value exactly equal to min or to max records no    *)
(* bound error.  (Bounds and numbers are in halves, so a length n is 2n.)  *)
(* Stated of the calls that returned and of the fields whose checks run.   *)
(***************************************************************************)
\* the magnitude the bounds are compared with, in halves
Magnitude(v) == IF v.t = "string" THEN 2 * Len(v.s) ELSE v.n

C16_BoundsAreStrictComparisons ==
  Completed =>
    \A f \in Declared :
      LET rule == RuleOf(rules, f)
          v == Get(last.input, f)
      IN (Evaluated(f, last.input) /\ v.t \in {"string", "number"}) =>
           /\ rule.min # <<>> =>
                /\ Recorded(f, "min") <=> Magnitude(v) < rule.min[1]
                /\ Magnitude(v) = rule.min[1] => ~Recorded(f, "min")
           /\ rule.max # <<>> =>
                /\ Recorded(f, "max") <=> Magnitude(v) > rule.max[1]
                /\ Magnitude(v) = rule.max[1] => ~Recorded(f, "max")

\* a string whose length is both the min and the max of its rule
C16_Witness ==
  /\ Completed
  /\ RuleOf(rules, "a").min = <<2>>
  /\ RuleOf(rules, "a").max = <<2>>
  /\ Get(last.input, "a") = Str(<<"a">>)
  /\ "a" \notin DOMAIN errors

(***************************************************************************)
(* C17.  Under a rule with type 'float', a numeric value equal to an       *)
(* integer records the type error and a numeric value with a fractional    *)
(* component records none; under type 'integer' the outcome is the         *)
(* opposite for the same two values.  (Numbers are in halves: n is an      *)
(* integer iff n is even.)  Stated of the calls that returned and of the   *)
(* fields whose checks run.                                                *)
(***************************************************************************)
C17_FloatAndIntegerAreOpposite ==
  Completed =>
    \A f \in Declared :
      LET rule == RuleOf(rules, f)
          v == Get(last.input, f)
      IN (Evaluated(f, last.input) /\ v.t = "number" /\ v.n >= 0) =>
           /\ rule.type = "float" => (Recorded(f, "type") <=> v.n % 2 = 0)
           /\ rule.type = "integer" => (Recorded(f, "type") <=> v.n % 2 = 1)

\* the integer 1 under a float rule: the type error is recorded
C17_Witness ==
  /\ Completed
  /\ RuleOf(rules, "a").type = "float"
  /\ Get(last.input, "a") = Num(2)
  /\ Recorded("a", "type")
  /\ ~last.ret

(***************************************************************************)
(* C20.  A type mismatch does not stop a field's pipeline: for every       *)
(* declared field that is not skipped and whose value is present (not      *)
(* absent, and not a required-empty value), the custom predicate is        *)
(* invoked exactly once per validate call with the field's value even if   *)
(* the type, bound, email, match or regex check already failed; it is      *)
(* never invoked for a skipped field, an absent field, or a field that     *)
(* failed the required check.  Stated of the calls that returned.          *)
(***************************************************************************)
Invocations(f) ==
  {i \in DOMAIN last.events :
     last.events[i].ev = "invoke" /\ last.events[i].key = f}

C20_CustomRunsOncePerEvaluatedField ==
  Completed =>
    \A f \in Declared :
      IF RuleOf(rules, f).custom # "none" /\ Evaluated(f, last.input)
      THEN /\ Cardinality(Invocations(f)) = 1
           /\ \A i \in Invocations(f) :
                last.events[i].value = Get(last.input, f)
      ELSE Invocations(f) = {}

\* a number under a rule of type string with a custom predicate: the type
\* error is recorded and the predicate is still invoked
C20_Witness ==
  /\ Completed
  /\ RuleOf(rules, "a").type = "string"
  /\ RuleOf(rules, "a").custom # "none"
  /\ Get(last.input, "a") = Num(2)
  /\ Recorded("a", "type")
  /\ Cardinality(Invocations("a")) = 1

(***************************************************************************)
(* C18.  If two validate() calls on the same instance overlap (the second  *)
(* starts while the first is suspended on a custom check), the shared      *)
(* errors map is corrupted: errors the first call recorded before the      *)
(* second call started are lost and later writes of both calls land in one *)
(* map, so a call can return false while getErrors() holds no entry for    *)
(* its failing field, and the final map can differ from the result of      *)
(* either call run alone.                                                  *)
(*                                                                         *)
(* As a property of every step: a call that starts leaves in this.errors   *)
(* only what it wrote itself, whatever a suspended call had written; a     *)
(* call that resumes keeps every entry it finds in the map, whichever call *)
(* wrote it; and a call returns false exactly when it wrote an error       *)
(* itself, whatever the map holds.  The witness is the corrupted outcome.  *)
(***************************************************************************)
\* call wrote an error for key k: in a field check, or in its strict scan
Wrote(call, k) ==
  \/ \E i \in DOMAIN call.events :
       call.events[i].ev = "record" /\ call.events[i].key = k
  \/ /\ call.status = "done"
     /\ call.thrown = <<>>
     /\ Truthy(options, "strictMode")
     /\ k \in ExtraKeys(call.input)

Returned(call) == call.status = "done" /\ call.thrown = <<>>

\* the errors map after a call on this input alone, on a fresh instance
Alone(input) ==
  ValidateCall([rules |-> rules, messages |-> messages, options |-> options,
                errors |-> EmptyMap, passed |-> EmptyMap], input).errors

C18_OverlappingCallsShareOneErrorsMap ==
  [][\A id \in CallIds :
       /\ (calls[id].status = "idle" /\ calls'[id].status # "idle"
              /\ calls'[id].thrown # InputError)
            => \A k \in DOMAIN errors' : Wrote(calls'[id], k)
       /\ (calls[id].status = "awaiting" /\ calls'[id] # calls[id])
            => \A k \in DOMAIN errors :
                 /\ k \in DOMAIN errors'
                 /\ errors'[k] # errors[k] => Wrote(calls'[id], k)
       /\ (calls[id].status # "done" /\ Returned(calls'[id]))
            => (calls'[id].ret
                  <=> \A k \in Declared \cup DOMAIN calls'[id].input.fields :
                        ~Wrote(calls'[id], k))]_vars

\* call 2 started while call 1 was suspended; call 1 returned false with
\* no entry for a field it had written an error for; the map the two calls
\* leave is the result of neither call alone
C18_Witness ==
  /\ Returned(calls[1])
  /\ Returned(calls[2])
  /\ 1 \in calls[2].during
  /\ ~calls[1].ret
  /\ \E k \in Declared : Wrote(calls[1], k) /\ k \notin DOMAIN calls[1].errors
  /\ errors # Alone(calls[1].input)
  /\ errors # Alone(calls[2].input)

(***************************************************************************)
(* C19.  Within one validate call fields are evaluated one at a time in    *)
(* rule-declaration order: the checks (and custom predicate) of a field    *)
(* start only after the custom check of every earlier field has settled,   *)
(* so at most one custom check is in flight per call, and the strict-mode  *)
(* scan and the passed-field population run only after the last field's    *)
(* custom check has settled.                                               *)
(***************************************************************************)
IndexOf(keys, k) == CHOOSE n \in DOMAIN keys : keys[n] = k

\* the events of the checks of a field
FieldEvent(e) == e.ev \in {"record", "invoke", "settle"}

\* the custom predicates of call that have been invoked and have not settled
InFlight(call) ==
  Cardinality({i \in DOMAIN call.events : call.events[i].ev = "invoke"})
    - Cardinality({i \in DOMAIN call.events : call.events[i].ev = "settle"})

EventsInOrder(call) ==
  LET es == call.events
  IN /\ \A i, j \in DOMAIN es :
          (i < j /\ FieldEvent(es[i]) /\ FieldEvent(es[j]))
            => IndexOf(call.ruleKeys, es[i].key)
                 <= IndexOf(call.ruleKeys, es[j].key)
     /\ \A i \in DOMAIN es :
          /\ (es[i].ev = "invoke" /\ i < Len(es))
               => es[i + 1].ev = "settle" /\ es[i + 1].key = es[i].key
          /\ es[i].ev = "settle"
               => i > 1 /\ es[i - 1].ev = "invoke" /\ es[i - 1].key = es[i].key
          /\ (es[i].ev = "record" /\ es[i].kind # "custom")
               => \A j \in DOMAIN es :
                    (j < i /\ es[j].key = es[i].key) => es[j].ev = "record"
          /\ es[i].ev \in {"scan", "populate"}
               => \A j \in DOMAIN es : j > i => es[j].ev = "populate"
     /\ InFlight(call) = IF call.status = "awaiting" THEN 1 ELSE 0

C19_FieldsAreEvaluatedOneAtATime ==
  [][\A id \in CallIds :
       /\ EventsInOrder(calls'[id])
       /\ (calls'[id] # calls[id] /\ calls'[id].status = "awaiting")
            => /\ passed' = passed
               /\ \A k \in (DOMAIN errors') \ Declared :
                    /\ calls[id].status = "awaiting"
                    /\ k \in DOMAIN errors
                    /\ errors'[k] = errors[k]]_vars

\* a call with two custom predicates has returned: both were invoked and
\* settled in declaration order before the scan and the population
C19_Witness ==
  \E id \in CallIds :
    /\ Returned(calls[id])
    /\ Len(calls[id].events) >= 6
    /\ calls[id].events[1] = Event("invoke", "a", "custom", Get(calls[id].input, "a"))
    /\ calls[id].events[2].ev = "settle"
    /\ \E i \in DOMAIN calls[id].events :
         calls[id].events[i].ev = "invoke" /\ calls[id].events[i].key = "b"
    /\ calls[id].events[Len(calls[id].events)].ev = "populate"
    /\ "x" \in DOMAIN errors
    /\ passed # EmptyMap

(***************************************************************************)
(* C22.  Whenever a check of kind k (type, required, min, max, validate,   *)
(* match, regex, custom) fails for field f: if messages[f][k] is           *)
(* configured the recorded error is exactly that string; otherwise the     *)
(* recorded error is a generated default that names the field f, and for   *)
(* min/max also embeds the rule's threshold.  Stated of the error that the *)
(* call leaves for f, which is the one of the last check that failed.      *)
(* (Refuted: the default of a failed type check is 'Expected a <type>, but *)
(* received <typeof value>', which does not name the field.)               *)
(***************************************************************************)
\* the kind of the last error the call wrote for field f
LastRecordedKind(f) ==
  LET is == {i \in DOMAIN last.events :
               last.events[i].ev = "record" /\ last.events[i].key = f}
  IN last.events[Last(is)].kind

\* the message has the token tok / has the tokens of sub in a row
Names(msg, tok) == \E i \in DOMAIN msg : msg[i] = tok

Embeds(msg, sub) ==
  \E i \in 0..(Len(msg) - Len(sub)) : SubSeq(msg, i + 1, i + Len(sub)) = sub

C22_ConfiguredMessageOrDefaultNamingField ==
  Completed =>
    \A f \in Declared :
      (\E k \in Kinds : Recorded(f, k)) =>
        LET k == LastRecordedKind(f)
            rule == RuleOf(rules, f)
        IN /\ f \in DOMAIN errors
           /\ IF k \in DOMAIN messages[f]
              THEN errors[f] = messages[f][k]
              ELSE /\ Names(errors[f], f)
                   /\ k = "min" => Embeds(errors[f], NumToString(rule.min[1]))
                   /\ k = "max" => Embeds(errors[f], NumToString(rule.max[1]))

(***************************************************************************)
(* C23.  A rule with type 'date' accepts only a valid date value: a        *)
(* date-formatted string and an invalid Date object (one whose time value  *)
(* is NaN) both record the type error, while a valid Date object records   *)
(* none.  (Refuted: Number.isNaN of a Date object is false, so an invalid  *)
(* Date object records no type error.)                                     *)
(***************************************************************************)
C23_DateAcceptsOnlyValidDates ==
  Completed =>
    \A f \in Declared :
      LET v == Get(last.input, f)
      IN (RuleOf(rules, f).type = "date" /\ Evaluated(f, last.input)) =>
           /\ v.t = "string" => Recorded(f, "type")
           /\ (v.t = "date" /\ v.n = 0) => Recorded(f, "type")
           /\ (v.t = "date" /\ v.n = 1) => ~Recorded(f, "type")

(***************************************************************************)
(* C24.  An update overrides by key and replaces the mentioned entry       *)
(* wholesale rather than merging into it: after updateRules({f: r}) the    *)
(* rule applied to f is exactly r (attributes of f's previous rule that r  *)
(* omits, such as type or min, no longer apply), and after                 *)
(* updateMessages({f: m}) a message kind of f that m omits falls back to   *)
(* the generated default.  The second conjunct of each part states the     *)
(* effect on the validate call that follows the update.                    *)
(***************************************************************************)
\* rule declares the check of kind k
Declares(rule, k) ==
  CASE k = "type" -> rule.type # "none"
    [] k = "required" -> rule.required
    [] k = "min" -> rule.min # <<>>
    [] k = "max" -> rule.max # <<>>
    [] k = "validate" -> rule.validate # "none"
    [] k = "match" -> rule.match # <<>>
    [] k = "regex" -> rule.regex # "none"
    [] k = "custom" -> rule.custom # "none"

C24_UpdateReplacesTheEntry ==
  [][/\ last'.op = "updateRules" =>
          \A f \in DOMAIN last'.partial :
            HasRule(rules', f) /\ RuleOf(rules', f) = last'.partial[f]
     /\ (last.op = "updateRules" /\ Completed') =>
          \A f \in DOMAIN last.partial, k \in Kinds :
            Recorded(f, k)' => Declares(last.partial[f], k)
     /\ last'.op = "updateMessages" =>
          \A f \in DOMAIN last'.partial :
            f \in DOMAIN messages' /\ messages'[f] = last'.partial[f]
     /\ (last.op = "updateMessages" /\ Completed') =>
          \A f \in (DOMAIN last.partial) \cap (DOMAIN errors') :
            LET k == LastRecordedKind(f)'
            IN k \notin DOMAIN last.partial[f] =>
                 errors'[f] = DefaultMessage(k, f, RuleOf(rules, f),
                                             Get(last'.input, f))]_vars

\* after updateMessages({a: {type: ...}}) on an instance that had a
\* required message for a, a validate call records the default required
\* message for a
C24_Witness ==
  /\ Completed
  /\ messages["a"] = TypeMessageOnly
  /\ RuleOf(rules, "a").required
  /\ "a" \in DOMAIN errors
  /\ errors["a"] = DefaultRequired("a")

(***************************************************************************)
(* C27.  When validate rejects with 'Input must be an object.', errors and *)
(* passed are exactly as they were before the call: the errors of the      *)
(* previous validate call are not cleared.                                 *)
(***************************************************************************)
C27_RejectedInputLeavesTheMaps ==
  [][(last'.op = "validate" /\ last'.thrown = InputError)
       => errors' = errors /\ passed' = passed]_vars

\* a rejected call on an instance whose errors and passed have entries
C27_Witness ==
  /\ last.op = "validate"
  /\ last.outcome = "threw"
  /\ last.thrown = InputError
  /\ errors # EmptyMap
  /\ passed # EmptyMap

(***************************************************************************)
(* C28.  After any completed validate call, every key of errors is either  *)
(* a declared rule key or, only when strictMode is on, a key of the input  *)
(* that has no rule; the strict-mode scan never overwrites or removes the  *)
(* error of a declared field (a declared field for which the call wrote an *)
(* error has the message of the last error written for it), and with       *)
(* strictMode off the keys of errors are a subset of the rule keys.        *)
(***************************************************************************)
C28_ErrorKeysAreDeclaredOrStrictExtras ==
  Completed =>
    /\ \A k \in DOMAIN errors :
         \/ k \in Declared
         \/ Truthy(options, "strictMode") /\ k \in ExtraKeys(last.input)
    /\ ~Truthy(options, "strictMode") => DOMAIN errors \subseteq Declared
    /\ \A f \in Declared :
         IF \E k \in Kinds : Recorded(f, k)
         THEN /\ f \in DOMAIN errors
              /\ errors[f] = MessageOf(LastRecordedKind(f), f, last.input)
         ELSE f \notin DOMAIN errors

\* under strictMode a declared field keeps its own error next to the error
\* of an input key that has no rule
C28_Witness ==
  /\ Completed
  /\ Truthy(options, "strictMode")
  /\ Recorded("a", "min")
  /\ DOMAIN errors = {"a", "b", "x"}
  /\ Declared = {"a"}
  /\ errors["a"] # StrictMessage("a")
  /\ errors["b"] = StrictMessage("b")

(***************************************************************************)
(* C21.  If a custom predicate throws or its promise rejects, the          *)
(* exception propagates: validate rejects with it instead of recording a   *)
(* custom validation failure for that field, fields declared after it are  *)
(* not evaluated, and the passed map is not updated by that call.          *)
(***************************************************************************)
\* the fields declared after field f
DeclaredAfter(f) ==
  {RuleKeys(rules)[j] : j \in {n \in DOMAIN rules :
                                 n > IndexOf(RuleKeys(rules), f)}}

C21_CustomExceptionPropagates ==
  [][last'.op = "validate" =>
       \A f \in Declared :
         (/\ RuleOf(rules, f).custom \in {"throws", "rejects"}
          /\ Invocations(f)' # {})
           => /\ last'.outcome = "threw"
              /\ last'.thrown = CustomError
              /\ ~Recorded(f, "custom")'
              /\ \A g \in DeclaredAfter(f) :
                   EventsOf(g)' = {} /\ g \notin DOMAIN errors'
              /\ passed' = passed]_vars

\* the predicate of "a" threw after the type error of "a" was written: the
\* call rejected, "b" (required and absent) has no error and passed keeps
\* the entries of an earlier call
C21_Witness ==
  /\ last.op = "validate"
  /\ last.outcome = "threw"
  /\ last.thrown = CustomError
  /\ RuleOf(rules, "a").custom \in {"throws", "rejects"}
  /\ Recorded("a", "type")
  /\ Get(last.input, "b") = Undefined
  /\ DOMAIN errors = {"a"}
  /\ passed # EmptyMap

(***************************************************************************)
(* C25.  A validate call in which no evaluated field has a custom          *)
(* predicate performs all of its writes to errors and passed before it     *)
(* returns its promise (it never yields control), so getErrors() and       *)
(* getPassedFields() read immediately after an un-awaited validate call    *)
(* show that call's complete result and no other operation can interleave  *)
(* with it; a call that evaluates a custom predicate yields at that point  *)
(* even when the predicate is synchronous.                                 *)
(***************************************************************************)
\* the declared fields with a custom predicate whose checks run on input
WithCustom(input) ==
  {f \in Declared :
     RuleOf(rules, f).custom # "none" /\ Evaluated(f, input)}

C25_CallWithoutCustomNeverYields ==
  [][\A id \in CallIds :
       (calls[id].status = "idle" /\ calls'[id].status # "idle"
          /\ calls'[id].thrown # InputError)
        => LET input == calls'[id].input
               whole == ValidateCall([rules |-> rules, messages |-> messages,
                                      options |-> options, errors |-> errors,
                                      passed |-> passed], input)
           IN IF WithCustom(input) = {}
              THEN /\ calls'[id].status = "done"
                   /\ errors' = whole.errors
                   /\ passed' = whole.passed
                   /\ calls'[id].ret = whole.ret
              ELSE /\ calls'[id].status = "awaiting"
                   /\ calls'[id].ruleKeys[calls'[id].i] \in WithCustom(input)
                   /\ \A j \in 1..(calls'[id].i - 1) :
                        calls'[id].ruleKeys[j] \notin WithCustom(input)
                   /\ passed' = passed]_vars

\* a call none of whose evaluated fields has a custom predicate: it is
\* done, with its errors and its passed fields written, and the other call
\* has not started
C25_Witness ==
  /\ Returned(calls[1])
  /\ calls[2].status = "idle"
  /\ WithCustom(calls[1].input) = {}
  /\ RuleOf(rules, "b").custom # "none"
  /\ "a" \in DOMAIN errors
  /\ "b" \in DOMAIN passed

(***************************************************************************)
(* C26.  Every field a validate call writes to passed had its pipeline     *)
(* evaluated by that same call, even when updateRules adds a new field     *)
(* while the call is suspended on a custom check: a field that a call adds *)
(* to passed is one of the fields that call iterated over.  (Refuted: the  *)
(* population of passed reads this.rules at the end of the call, so a      *)
(* field added by updateRules during the suspension is written to passed   *)
(* without having been evaluated.)                                         *)
(***************************************************************************)
C26_PassedFieldsWereEvaluated ==
  [][\A id \in CallIds :
       (calls[id].status # "done" /\ calls'[id].status = "done")
         => \A k \in (DOMAIN passed') \ (DOMAIN passed) :
              k \in Range(calls'[id].ruleKeys)]_vars

(***************************************************************************)
(* C29.  For skip and custom predicates that are pure and do not throw,    *)
(* the final errors map, the entries written to passed and the boolean     *)
(* returned by a validate call are the same for every order in which the   *)
(* fields are declared in rules.  Stated of the calls that return: the     *)
(* same call on an instance that declares the same rules in any other      *)
(* order returns too, with the same boolean, errors and passed.            *)
(***************************************************************************)
\* the sequences that declare the entries of rs in some order
Orders(rs) ==
  {[i \in DOMAIN rs |-> rs[p[i]]] : p \in Permutations(DOMAIN rs)}

C29_DeclarationOrderDoesNotMatter ==
  (Completed /\ last.op = "validate") =>
    \A rs \in Orders(rules) :
      LET r == ValidateCall([rules |-> rs, messages |-> messages,
                             options |-> options, errors |-> EmptyMap,
                             passed |-> EmptyMap], last.input)
      IN /\ r.outcome = "returned"
         /\ r.ret = last.ret
         /\ r.errors = errors
         /\ r.passed = passed

\* two declared fields that both fail, the first one on a check that
\* reads the second
C29_Witness ==
  /\ Completed
  /\ Len(rules) = 2
  /\ RuleOf(rules, "a").match = <<"b">>
  /\ DOMAIN errors = {"a", "b"}
  /\ Recorded("a", "match")
  /\ Truthy(options, "trackPassedFields")
  /\ ~last.ret

(***************************************************************************)
(* C30.  Every validate call eventually settles (resolves to a boolean or  *)
(* rejects) provided each custom predicate it invokes returns a value or a *)
(* promise that eventually settles, and it evaluates each declared field   *)
(* at most once; if a custom promise never settles, the call never         *)
(* resolves and no later field, strict-mode scan or passed-field write of  *)
(* that call happens.                                                      *)
(***************************************************************************)
\* no field that the call evaluates has a predicate that never settles
EverySettles(call) ==
  \A f \in Declared :
    Evaluated(f, call.input) => RuleOf(rules, f).custom # "never"

\* the call has written at most one error of each kind for each field and
\* has invoked the custom predicate of each field at most once
EvaluatedOnce(call) ==
  \A f \in Declared, ev \in {"record", "invoke", "settle"}, k \in Kinds :
    Cardinality({i \in DOMAIN call.events :
                   /\ call.events[i].key = f
                   /\ call.events[i].ev = ev
                   /\ call.events[i].kind = k}) <= 1

\* the call is suspended on a promise that never settles
Stuck(call) == call.status = "awaiting" /\ call.custom = "never"

C30_CallSettlesIffItsCustomsSettle ==
  /\ \A id \in CallIds :
       (calls[id].status = "awaiting" /\ EverySettles(calls[id]))
         ~> (calls[id].status = "done")
  /\ [](\A id \in CallIds : EvaluatedOnce(calls[id]))
  /\ [][\A id \in CallIds :
          Stuck(calls[id]) =>
            /\ calls'[id] = calls[id]
            /\ calls[id].events[Len(calls[id].events)]
                 = Event("invoke", calls[id].ruleKeys[calls[id].i], "custom",
                         Get(calls[id].input, calls[id].ruleKeys[calls[id].i]))]_vars

\* one call has gone through a custom predicate that settled and has
\* returned, while the other, past the same predicate, is suspended for
\* good on a promise that never settles
C30_Witness ==
  \E id, other \in CallIds :
    /\ Returned(calls[id])
    /\ Stuck(calls[other])
    /\ \A call \in {calls[id], calls[other]} :
         \E i \in DOMAIN call.events : call.events[i].ev = "settle"

====
